---------------------------- MODULE Spec2Model ----------------------------
(***************************************************************************)
(* A model of dccjsonvalidation: the type coercions, the schema flattener, *)
(* the dereferencer and the record validator of schema_tools.py and        *)
(* validate_using_schema.py.                                               *)
(*                                                                         *)
(* Python values are modelled as follows.                                  *)
(*   - a dict is a function whose DOMAIN is its key set ("k in d" is       *)
(*     k \in DOMAIN d); where the code iterates a dict, the iteration      *)
(*     order is given by a sequence of its keys;                           *)
(*   - a list is a sequence;                                               *)
(*   - a str is a sequence of one-character strings, so that isnumeric(),  *)
(*     upper(), replace(), str(), int() and float() are computed;          *)
(*   - a scalar is a tagged record [t, b, n, s]: t is the Python type,     *)
(*     b the bool, n the int (or the whole part of a float), s the str     *)
(*     (or the fractional digits of a float);                              *)
(*   - a call that may raise returns [ok, err, val].                       *)
(***************************************************************************)
EXTENDS Integers, Sequences, FiniteSets, TLC

VARIABLES
    hashFirst,      \* which of "anyOf"/"enum" this process's set order lists first
    val_schema,     \* coercion: the schema handed to the two coercions
    data_row,       \* coercion: the record handed to the two coercions
    func_to_run,    \* coercion: the converter of the last narrowing call
    widen_call,     \* coercion: [type_list, func_to_run] of the last widening call
    narrowed,       \* coercion: outcome of convert_from_other(data_row, ...)
    widened,        \* coercion: outcome of the last convert_string_to_other call
    narrowed2,      \* coercion: outcome of narrowing the narrowed record again
    cpc,            \* coercion: position of the calling sequence
    json_schema,    \* flattener: the schema handed to the two flatteners
    definitions_df, \* get_definitions_values: rows of the Definitions table
    values_df,      \* get_definitions_values: rows of the Values table
    gdv_i,          \* get_definitions_values: properties iterated so far
    definitions_dict, \* get_schema_properties: key -> definition fields
    values_dict,    \* get_schema_properties: key -> list of value entries
    gsp_i,          \* get_schema_properties: properties iterated so far
    loaded_doc,     \* load_and_deref: the document as json.load returned it
    ld,             \* load_and_deref: [json_schema, ref_location_dict, cache,
                    \*   raised] of the call, and i, the properties iterated
    pc,             \* main: "start", "loaded", "loop", "done", or "failed"
    files,          \* main: [schema, data], the two files of the command line
    schema_validator, \* main: the dereferenced schema the validator holds
    data_dict_list, \* main: the records to validate
    first_record,   \* main: number of the first record
    line_number,    \* main: records processed so far
    converted_clean_record, \* main: the record last handed to the validator
    validation_errors_text, \* main: the accumulated validation_errors string
    stdout,         \* main: what print() wrote
    uncaught,       \* main: the exception that ended the run, or ""
    schema_errors,  \* validation_errors: the errors of the validator
    kwargs,         \* validation_errors: the values of the keyword arguments
    error_string,   \* validation_errors: what the call returned or raised
    schema_obj,     \* walk_schema: the dictionary to write out
    schema_output,  \* walk_schema: what the call returned or raised
    tbl_pc,         \* process_overwrite_table: "start", "flattened",
                    \*   "got", "queried", "deleted", "stored" or "failed"
    tbl_file,       \* process_overwrite_table: args.json_schema_file
    syn_table_df,   \* process_overwrite_table: the rows made of the schema
    results,        \* process_overwrite_table: the rows the query returned
    remote_rows,    \* the rows of the remote table
    remote_calls    \* the calls issued to the remote store, in order

coerceVars == <<val_schema, data_row, func_to_run, widen_call, narrowed, widened,
                narrowed2, cpc>>

flatVars == <<json_schema, definitions_df, values_df, gdv_i, definitions_dict,
              values_dict, gsp_i>>

derefVars == <<loaded_doc, ld>>

mainVars == <<pc, files, schema_validator, data_dict_list, first_record, line_number,
              converted_clean_record, validation_errors_text, stdout, uncaught>>

renderVars == <<schema_errors, kwargs, error_string>>

walkVars == <<schema_obj, schema_output>>

tableVars == <<tbl_pc, tbl_file, syn_table_df, results, remote_rows, remote_calls>>

restVars == <<renderVars, walkVars, tableVars>>

vars == <<hashFirst, coerceVars, flatVars, derefVars, mainVars, restVars>>

---------------------------------------------------------------------------
(* Bounds of the model.                                                    *)

\* longest value list (anyOf / enum) of a schema property
MaxEntries == 2

---------------------------------------------------------------------------
(* Python scalars and strings.                                             *)

PyStr(s) == [t |-> "str", b |-> FALSE, n |-> 0, s |-> s]
PyBool(b) == [t |-> "bool", b |-> b, n |-> 0, s |-> <<>>]
PyInt(n) == [t |-> "int", b |-> FALSE, n |-> n, s |-> <<>>]
\* whole part n, fractional digits s: 1.5 is PyFloat(1, <<"5">>)
PyFloat(n, s) == [t |-> "float", b |-> FALSE, n |-> n, s |-> s]

\* isinstance(v, str); isinstance(v, bool); isinstance(v, (float, int)):
\* bool is a subclass of int
IsStr(v) == v.t = "str"
IsBool(v) == v.t = "bool"
IsFloatOrInt(v) == v.t \in {"int", "float", "bool"}

Ok(v) == [ok |-> TRUE, err |-> "", val |-> v]
Raise(e) == [ok |-> FALSE, err |-> e, val |-> <<>>]

\* values of the variables of a part of the model that a specification
\* leaves alone
NoCall == [type_list |-> {}, func |-> ""]
NoResult == Raise("")

CoerceIdle ==
    /\ val_schema = [properties |-> <<>>]
    /\ data_row = <<>>
    /\ func_to_run = ""
    /\ widen_call = NoCall
    /\ narrowed = NoResult
    /\ widened = NoResult
    /\ narrowed2 = NoResult
    /\ cpc = "idle"

FlatIdle ==
    /\ json_schema = [properties |-> <<>>]
    /\ definitions_df = <<>>
    /\ values_df = <<>>
    /\ gdv_i = 0
    /\ definitions_dict = <<>>
    /\ values_dict = <<>>
    /\ gsp_i = 0

DerefIdle ==
    /\ loaded_doc = [properties |-> <<>>]
    /\ ld = [json_schema |-> [properties |-> <<>>], ref_location_dict |-> <<>>,
             cache |-> <<>>, raised |-> "", i |-> 0]

MainIdle ==
    /\ pc = "idle"
    /\ files = <<>>
    /\ schema_validator = <<>>
    /\ data_dict_list = <<>>
    /\ first_record = 0
    /\ line_number = 0
    /\ converted_clean_record = <<>>
    /\ validation_errors_text = <<>>
    /\ stdout = <<>>
    /\ uncaught = ""

RenderIdle ==
    /\ schema_errors = <<>>
    /\ kwargs = <<>>
    /\ error_string = NoResult

WalkIdle ==
    /\ schema_obj = <<>>
    /\ schema_output = NoResult

TableIdle ==
    /\ tbl_pc = "idle"
    /\ tbl_file = <<>>
    /\ syn_table_df = <<>>
    /\ results = <<>>
    /\ remote_rows = <<>>
    /\ remote_calls = <<>>

RestIdle == RenderIdle /\ WalkIdle /\ TableIdle

DigitChars == <<"0", "1", "2", "3", "4", "5", "6", "7", "8", "9">>
DecimalDigits == {DigitChars[i] : i \in 1..10}
\* A character that str.isnumeric() accepts and int()/float() reject
\* (VULGAR FRACTION ONE HALF, U+00BD).
HalfChar == "U+00BD"
NumericChars == DecimalDigits \cup {HalfChar}

DigitVal(c) == CHOOSE i \in 0..9 : DigitChars[i + 1] = c

RECURSIVE NatToStr(_)
NatToStr(n) ==
    IF n < 10 THEN <<DigitChars[n + 1]>>
    ELSE NatToStr(n \div 10) \o <<DigitChars[(n % 10) + 1]>>

\* str(v) of an int or a float
py_str(v) ==
    LET digits == IF v.n < 0 THEN <<"-">> \o NatToStr(-v.n) ELSE NatToStr(v.n)
    IN  IF v.t = "float" THEN digits \o <<".">> \o v.s ELSE digits

\* str.isnumeric(): non-empty and every character numeric
isnumeric(s) == Len(s) > 0 /\ \A i \in 1..Len(s) : s[i] \in NumericChars

\* str.upper()
UpperChar(c) ==
    CASE c = "t" -> "T" [] c = "r" -> "R" [] c = "u" -> "U" [] c = "e" -> "E"
      [] c = "f" -> "F" [] c = "a" -> "A" [] c = "l" -> "L" [] c = "s" -> "S"
      [] c = "n" -> "N" [] c = "k" -> "K" [] c = "o" -> "O" [] c = "w" -> "W"
      [] OTHER -> c
upper(s) == [i \in 1..Len(s) |-> UpperChar(s[i])]

\* s.replace(".", "", 1): the first "." removed
replace_first_dot(s) ==
    IF \E i \in 1..Len(s) : s[i] = "."
    THEN LET k == CHOOSE i \in 1..Len(s) :
                      s[i] = "." /\ \A j \in 1..(i - 1) : s[j] # "."
         IN  SubSeq(s, 1, k - 1) \o SubSeq(s, k + 1, Len(s))
    ELSE s

RECURSIVE DigitsToNat(_)
DigitsToNat(s) ==
    IF Len(s) = 0 THEN 0
    ELSE 10 * DigitsToNat(SubSeq(s, 1, Len(s) - 1)) + DigitVal(s[Len(s)])

RECURSIVE StripTrailingZeros(_)
StripTrailingZeros(s) ==
    IF Len(s) > 0 /\ s[Len(s)] = "0"
    THEN StripTrailingZeros(SubSeq(s, 1, Len(s) - 1))
    ELSE s

\* int(s) of a string that passed isnumeric()
py_int(s) ==
    IF \A i \in 1..Len(s) : s[i] \in DecimalDigits
    THEN Ok(PyInt(DigitsToNat(s)))
    ELSE Raise("ValueError")

\* float(s) of a string that is numeric once its first "." is removed
py_float(s) ==
    IF \A i \in 1..Len(s) : s[i] \in DecimalDigits \cup {"."}
    THEN LET k == CHOOSE i \in 1..Len(s) : s[i] = "."
             frac == StripTrailingZeros(SubSeq(s, k + 1, Len(s)))
         IN  Ok(PyFloat(DigitsToNat(SubSeq(s, 1, k - 1)),
                        IF frac = <<>> THEN <<"0">> ELSE frac))
    ELSE Raise("ValueError")

---------------------------------------------------------------------------
(* The four converters.                                                    *)

\* a variant that takes str() of the boolean, which is capitalised
convert_bool_to_string_py_str(input_value) ==
    IF IsBool(input_value)
    THEN Ok(PyStr(IF input_value.b THEN <<"T", "r", "u", "e">>
                  ELSE <<"F", "a", "l", "s", "e">>))
    ELSE Ok(input_value)

convert_bool_to_string(input_value) ==
    IF IsBool(input_value)
    THEN Ok(PyStr(IF input_value.b THEN <<"t", "r", "u", "e">>
                  ELSE <<"f", "a", "l", "s", "e">>))
    ELSE Ok(input_value)

convert_numeric_to_string(input_value) ==
    IF IsFloatOrInt(input_value) /\ ~IsBool(input_value)
    THEN Ok(PyStr(py_str(input_value)))
    ELSE Ok(input_value)

\* a variant that looks the string up as it is, without upper()
convert_string_to_bool_no_upper(input_value) ==
    IF IsStr(input_value)
    THEN IF input_value.s = <<"T", "R", "U", "E">> THEN Ok(PyBool(TRUE))
         ELSE IF input_value.s = <<"F", "A", "L", "S", "E">>
              THEN Ok(PyBool(FALSE))
              ELSE Ok(input_value)
    ELSE Ok(input_value)

convert_string_to_bool(input_value) ==
    IF IsStr(input_value)
    THEN IF upper(input_value.s) = <<"T", "R", "U", "E">> THEN Ok(PyBool(TRUE))
         ELSE IF upper(input_value.s) = <<"F", "A", "L", "S", "E">>
              THEN Ok(PyBool(FALSE))
              ELSE Ok(input_value)
    ELSE Ok(input_value)

\* input_value.isnumeric() of a non-string raises AttributeError
convert_string_to_numeric(input_value) ==
    IF ~IsStr(input_value) THEN Raise("AttributeError")
    ELSE IF isnumeric(input_value.s) THEN py_int(input_value.s)
    ELSE IF isnumeric(replace_first_dot(input_value.s))
         THEN py_float(input_value.s)
         ELSE Ok(input_value)

Converters == {"convert_bool_to_string", "convert_numeric_to_string",
               "convert_string_to_bool", "convert_string_to_numeric"}

\* func_to_run(value)
Apply(func, value) ==
    CASE func = "convert_bool_to_string" -> convert_bool_to_string(value)
      [] func = "convert_numeric_to_string" -> convert_numeric_to_string(value)
      [] func = "convert_string_to_bool" -> convert_string_to_bool(value)
      [] func = "convert_string_to_numeric" -> convert_string_to_numeric(value)

---------------------------------------------------------------------------
(* The two coercions.                                                      *)

VALUES_LIST_KEYWORDS == <<"anyOf", "enum">>

\* every key name of the model, in the order documents list them
KeyOrder == <<"a", "b", "x">>

\* the keys of dict d in iteration order
KeysOf(d) == SelectSeq(KeyOrder, LAMBDA k : k \in DOMAIN d)

\* any(value_key in schema_val for value_key in VALUES_LIST_KEYWORDS)
HasValuesList(schema_val) ==
    \E i \in 1..Len(VALUES_LIST_KEYWORDS) :
        VALUES_LIST_KEYWORDS[i] \in DOMAIN schema_val

\* list(set(VALUES_LIST_KEYWORDS).intersection(schema_val))[0]: with both
\* keywords present the first element of the set is the one the process's
\* string hashing lists first
vkey_of(schema_val, first) ==
    LET common == {VALUES_LIST_KEYWORDS[i] : i \in 1..Len(VALUES_LIST_KEYWORDS)}
                      \cap DOMAIN schema_val
    IN  IF first \in common THEN first ELSE CHOOSE k \in common : TRUE

\* what one iteration of "for rec_key in data_row" leaves in converted_row
KeySet(v) == [kind |-> "set", val |-> v, err |-> ""]
KeyUnset == [kind |-> "unset", val |-> PyInt(0), err |-> ""]
KeyRaise(e) == [kind |-> "raise", val |-> PyInt(0), err |-> e]

KeyOfCall(r) == IF r.ok THEN KeySet(r.val) ELSE KeyRaise(r.err)

\* for schema_values in schema_val[vkey]: ... break / else: ...
RECURSIVE from_other_loop(_, _, _, _, _)
from_other_loop(entries, i, value, func, acc) ==
    IF i > Len(entries) THEN acc
    ELSE IF "const" \in DOMAIN entries[i] /\ IsStr(entries[i].const)
         THEN KeyOfCall(Apply(func, value))
         ELSE from_other_loop(entries, i + 1, value, func, KeySet(value))

\* a variant without the isinstance(data_row[rec_key], str) test
from_other_key_no_str_test(row, schema, func, first, rec_key) ==
    IF rec_key \notin DOMAIN schema.properties THEN KeyRaise("KeyError")
    ELSE LET schema_val == schema.properties[rec_key]
             value == row[rec_key]
         IN  IF ~HasValuesList(schema_val)
             THEN KeySet(value)
             ELSE from_other_loop(schema_val[vkey_of(schema_val, first)], 1,
                                  value, func, KeyUnset)

from_other_key(row, schema, func, first, rec_key) ==
    IF rec_key \notin DOMAIN schema.properties THEN KeyRaise("KeyError")
    ELSE LET schema_val == schema.properties[rec_key]
             value == row[rec_key]
         IN  IF \/ rec_key \notin DOMAIN schema.properties
                \/ IsStr(value)
                \/ (~IsStr(value) /\ ~HasValuesList(schema_val))
             THEN KeySet(value)
             ELSE from_other_loop(schema_val[vkey_of(schema_val, first)], 1,
                                  value, func, KeyUnset)

RECURSIVE string_to_other_loop(_, _, _, _, _, _)
string_to_other_loop(entries, i, value, types, func, acc) ==
    IF i > Len(entries) THEN acc
    ELSE IF "type" \in DOMAIN entries[i] /\ entries[i].type \in types
         THEN KeyOfCall(Apply(func, value))
         ELSE string_to_other_loop(entries, i + 1, value, types, func,
                                   KeySet(value))

string_to_other_key(row, schema, types, func, first, rec_key) ==
    IF rec_key \notin DOMAIN schema.properties THEN KeyRaise("KeyError")
    ELSE LET schema_val == schema.properties[rec_key]
             value == row[rec_key]
         IN  IF \/ rec_key \notin DOMAIN schema.properties
                \/ ~IsStr(value)
                \/ (IsStr(value) /\ ~HasValuesList(schema_val))
             THEN KeySet(value)
             ELSE string_to_other_loop(schema_val[vkey_of(schema_val, first)],
                                       1, value, types, func, KeyUnset)

\* the loop over the record's keys: an exception ends the call, a key the
\* iteration left unset is absent from converted_row
RECURSIVE collect_row(_, _, _, _)
collect_row(keys, i, outcome, converted_row) ==
    IF i > Len(keys) THEN Ok(converted_row)
    ELSE LET o == outcome[keys[i]]
         IN  IF o.kind = "raise" THEN Raise(o.err)
             ELSE collect_row(keys, i + 1, outcome,
                              IF o.kind = "set"
                              THEN converted_row @@ (keys[i] :> o.val)
                              ELSE converted_row)

convert_from_other(row, schema, func, first) ==
    collect_row(KeysOf(row), 1,
                [k \in DOMAIN row |-> from_other_key(row, schema, func, first, k)],
                <<>>)

convert_string_to_other(row, schema, types, func, first) ==
    collect_row(KeysOf(row), 1,
                [k \in DOMAIN row |->
                    string_to_other_key(row, schema, types, func, first, k)],
                <<>>)

---------------------------------------------------------------------------
(* Inputs of the coercions.                                                *)

S_true == <<"t", "r", "u", "e">>
S_false == <<"f", "a", "l", "s", "e">>
S_Unknown == <<"U", "n", "k", "n", "o", "w", "n">>

\* entries of a value list: a string constant, a boolean constant (bare, and
\* with its type declared), and entries that only declare a type
EntryPool ==
    { [const |-> PyStr(S_Unknown)], [const |-> PyBool(TRUE)],
      [const |-> PyBool(TRUE), type |-> "boolean"],
      [type |-> "boolean"], [type |-> "integer"] }

ListsUpTo(n) == UNION { [1..m -> EntryPool] : m \in 0..n }

ValueLists == ListsUpTo(MaxEntries)

\* property definitions: without a value list, with one keyword, with both
PropShapes ==
    { <<>>, [type |-> "string"] }
    \cup { [anyOf |-> l] : l \in ValueLists }
    \cup { [enum |-> l] : l \in ValueLists }
    \cup { [anyOf |-> l1, enum |-> l2] : l1 \in ListsUpTo(1), l2 \in ListsUpTo(1) }

StringValues ==
    { PyStr(s) : s \in { <<>>, <<".">>, <<"1", "2">>, <<"0", "5">>,
                         <<"1", ".", "5">>, <<"1", ".">>, <<"1", ".", "2", ".", "3">>,
                         <<"T", "R", "U", "E">>, <<"F", "a", "l", "s", "e">>,
                         S_Unknown, <<HalfChar>> } }

TypedValues ==
    { PyBool(TRUE), PyBool(FALSE), PyInt(7), PyInt(-3), PyFloat(1, <<"5">>) }

\* records: key "a" with any value, key "b" and the unknown column "x"
\* present or not
DataRows ==
    { ra @@ rb @@ rx :
        ra \in {<<>>} \cup { "a" :> v : v \in StringValues \cup TypedValues },
        rb \in { <<>>, "b" :> PyBool(FALSE) },
        rx \in { <<>>, "x" :> PyInt(3) } }

\* the (type_list, func_to_run) pairs of a widening call
WidenCalls ==
    { [type_list |-> tl, func |-> f] :
        tl \in { {"boolean"}, {"integer", "number"} },
        f \in { "convert_string_to_bool", "convert_string_to_numeric" } }

---------------------------------------------------------------------------
(* The coercions applied to drawn inputs.                                  *)

InitCoerce ==
    /\ hashFirst \in {"anyOf", "enum"}
    /\ \E pa \in PropShapes :
          \* the order only matters to a property that declares both keywords
          /\ ("enum" \in DOMAIN pa /\ "anyOf" \in DOMAIN pa) \/ hashFirst = "anyOf"
          /\ val_schema =
                [properties |-> ("a" :> pa) @@
                    ("b" :> [anyOf |-> <<[const |-> PyStr(S_false)],
                                         [type |-> "boolean"]>>])]
    /\ data_row \in DataRows
    /\ func_to_run = ""
    /\ widen_call = NoCall
    /\ narrowed = NoResult
    /\ widened = NoResult
    /\ narrowed2 = NoResult
    /\ cpc = "input"
    /\ FlatIdle
    /\ DerefIdle
    /\ MainIdle
    /\ RestIdle

\* narrowed = convert_from_other(data_row, val_schema, func)
Narrow ==
    /\ cpc = "input"
    /\ \E func \in Converters :
          /\ func_to_run' = func
          /\ narrowed' = convert_from_other(data_row, val_schema, func, hashFirst)
    /\ cpc' = "narrowed"
    /\ UNCHANGED <<hashFirst, val_schema, data_row, widen_call, widened, narrowed2>>
    /\ UNCHANGED <<flatVars, derefVars, mainVars, restVars>>

\* widened = convert_string_to_other(data_row, val_schema, type_list, func)
Widen ==
    /\ cpc = "input"
    /\ \E call \in WidenCalls :
          /\ widen_call' = call
          /\ widened' = convert_string_to_other(data_row, val_schema,
                                                call.type_list, call.func, hashFirst)
    /\ cpc' = "widened"
    /\ UNCHANGED <<hashFirst, val_schema, data_row, func_to_run, narrowed, narrowed2>>
    /\ UNCHANGED <<flatVars, derefVars, mainVars, restVars>>

\* the narrowed record narrowed once more with the same converter
NarrowAgain ==
    /\ cpc = "narrowed"
    /\ narrowed.ok
    /\ narrowed2' = convert_from_other(narrowed.val, val_schema, func_to_run,
                                       hashFirst)
    /\ cpc' = "narrowed2"
    /\ UNCHANGED <<hashFirst, val_schema, data_row, func_to_run, widen_call,
                   narrowed, widened>>
    /\ UNCHANGED <<flatVars, derefVars, mainVars, restVars>>

\* the narrowed record widened back
WidenBack ==
    /\ cpc = "narrowed"
    /\ narrowed.ok
    /\ \E call \in WidenCalls :
          /\ widen_call' = call
          /\ widened' = convert_string_to_other(narrowed.val, val_schema,
                                                call.type_list, call.func, hashFirst)
    /\ cpc' = "roundtrip"
    /\ UNCHANGED <<hashFirst, val_schema, data_row, func_to_run, narrowed, narrowed2>>
    /\ UNCHANGED <<flatVars, derefVars, mainVars, restVars>>

NextCoerce == Narrow \/ Widen \/ NarrowAgain \/ WidenBack

SpecCoerce == InitCoerce /\ [][NextCoerce]_vars

---------------------------------------------------------------------------
(* The schema flattener.                                                   *)

\* an optional key of a dict: {k: d[src]} when src is a key of d
Field(d, src, k) == IF src \in DOMAIN d THEN k :> d[src] ELSE <<>>

\* "required" of a property: ("required" in json_schema) and
\* (schema_key in json_schema["required"])
IsRequired(schema, schema_key) ==
    /\ "required" \in DOMAIN schema
    /\ \E i \in 1..Len(schema.required) : schema.required[i] = schema_key

\* a variant that appends the row only under `if "type" in schema_values`
definition_rows_typed_only(schema, schema_key) ==
    LET schema_values == schema.properties[schema_key]
    IN  IF "type" \in DOMAIN schema_values
        THEN << ("key" :> schema_key)
                @@ Field(schema_values, "type", "type")
                @@ Field(schema_values, "description", "description")
                @@ Field(schema_values, "maximumSize", "maximumSize")
                @@ ("required" :> IsRequired(schema, schema_key)) >>
        ELSE <<>>

\* the rows one iteration of get_definitions_values appends to definitions_df
definition_rows(schema, schema_key) ==
    LET schema_values == schema.properties[schema_key]
    IN  IF DOMAIN schema_values # {}
        THEN << ("key" :> schema_key)
                @@ Field(schema_values, "type", "type")
                @@ Field(schema_values, "description", "description")
                @@ Field(schema_values, "maximumSize", "maximumSize")
                @@ ("required" :> IsRequired(schema, schema_key)) >>
        ELSE <<>>

\* the assignments of one "for value_row in schema_values[vkey]" iteration;
\* a later assignment to a key overrides what row_dict held
value_row_dict(row_dict, schema_key, value_row) ==
    Field(value_row, "source", "source")
    @@ Field(value_row, "description", "valueDescription")
    @@ Field(value_row, "const", "value")
    @@ ("key" :> schema_key)
    @@ row_dict

\* a variant without the "values_dict = {}" that ends each iteration
RECURSIVE value_list_loop_no_reset(_, _, _, _, _)
value_list_loop_no_reset(entries, i, schema_key, row_dict, rows) ==
    IF i > Len(entries) THEN rows
    ELSE LET filled == value_row_dict(row_dict, schema_key, entries[i])
         IN  value_list_loop_no_reset(entries, i + 1, schema_key, filled,
                                      Append(rows, filled))

RECURSIVE value_list_loop(_, _, _, _, _)
value_list_loop(entries, i, schema_key, row_dict, rows) ==
    IF i > Len(entries) THEN rows
    ELSE LET filled == value_row_dict(row_dict, schema_key, entries[i])
         IN  value_list_loop(entries, i + 1, schema_key, <<>>,
                             Append(rows, filled))

\* the rows one iteration of get_definitions_values appends to values_df
value_rows(schema, schema_key, first) ==
    LET schema_values == schema.properties[schema_key]
    IN  IF DOMAIN schema_values = {} THEN <<>>
        ELSE IF "pattern" \in DOMAIN schema_values
             THEN << ("value" :> schema_values.pattern) @@ ("key" :> schema_key) >>
        ELSE IF HasValuesList(schema_values)
             THEN value_list_loop(schema_values[vkey_of(schema_values, first)],
                                  1, schema_key, <<>>, <<>>)
        ELSE <<>>

\* Python's None, and a value that is not None
None == [none |-> TRUE]
Some(v) == [some |-> v]
FieldOrNone(d, k) == IF k \in DOMAIN d THEN Some(d[k]) ELSE None

\* definitions_dict[schema_key] after one iteration of get_schema_properties
definitions_entry(schema, schema_key) ==
    LET schema_values == schema.properties[schema_key]
    IN  IF DOMAIN schema_values # {}
        THEN [type |-> FieldOrNone(schema_values, "type"),
              description |-> FieldOrNone(schema_values, "description"),
              required |-> Some(IsRequired(schema, schema_key)),
              maximumSize |-> FieldOrNone(schema_values, "maximumSize")]
        ELSE [type |-> None, description |-> None, required |-> None,
              maximumSize |-> None]

\* key_values_dict of one value-list entry
key_values_dict(value_row) ==
    [value |-> FieldOrNone(value_row, "const"),
     valueDescription |-> FieldOrNone(value_row, "description"),
     source |-> FieldOrNone(value_row, "source")]

\* what one iteration of get_schema_properties appends to
\* values_dict[schema_key]
values_entries(schema, schema_key, first) ==
    LET schema_values == schema.properties[schema_key]
    IN  IF DOMAIN schema_values = {} THEN <<>>
        ELSE IF "pattern" \in DOMAIN schema_values
             THEN << [value |-> Some(schema_values.pattern),
                      valueDescription |-> Some(""), source |-> Some("")] >>
        ELSE IF HasValuesList(schema_values)
             THEN LET entries == schema_values[vkey_of(schema_values, first)]
                  IN  [i \in 1..Len(entries) |-> key_values_dict(entries[i])]
        ELSE <<>>

---------------------------------------------------------------------------
(* Inputs of the flattener.                                                *)

S_pattern == <<"^", "a", "$">>

FlatEntryPool ==
    { [const |-> PyStr(S_true), description |-> "d1", source |-> "s1"],
      [const |-> PyBool(TRUE)],
      [description |-> "d2"] }

FlatListsUpTo(n) == UNION { [1..m -> FlatEntryPool] : m \in 0..n }

FlatShapes ==
    { <<>>, [type |-> "string"],
      [type |-> "string", description |-> "d", maximumSize |-> 10],
      [pattern |-> PyStr(S_pattern)],
      [description |-> "d"] }
    \cup { [pattern |-> PyStr(S_pattern), enum |-> l] : l \in FlatListsUpTo(1) }
    \cup { [type |-> "string", anyOf |-> l] : l \in FlatListsUpTo(MaxEntries) }
    \cup { [enum |-> l] : l \in FlatListsUpTo(MaxEntries) }
    \cup { [anyOf |-> l1, enum |-> l2] :
             l1 \in FlatListsUpTo(1), l2 \in FlatListsUpTo(MaxEntries) \ FlatListsUpTo(1) }

\* the second property of a schema
FlatShapesB ==
    { <<>>, [type |-> "boolean"], [pattern |-> PyStr(S_pattern)],
      [enum |-> <<[const |-> PyStr(S_false)], [description |-> "d2"]>>] }

FlatSchemas ==
    { [properties |-> pa @@ pb] @@ req :
        pa \in {<<>>} \cup { "a" :> p : p \in FlatShapes },
        pb \in {<<>>} \cup { "b" :> p : p \in FlatShapesB },
        req \in { <<>>, "required" :> <<>>, "required" :> <<"a">>,
                  "required" :> <<"b", "x">> } }

DeclaresBoth(schema) ==
    \E k \in DOMAIN schema.properties :
        {"anyOf", "enum"} \subseteq DOMAIN schema.properties[k]

---------------------------------------------------------------------------
(* The flatteners applied to drawn schemas, one property per step.         *)

InitFlatten ==
    /\ hashFirst \in {"anyOf", "enum"}
    /\ json_schema \in FlatSchemas
    \* the order only matters to a property that declares both keywords
    /\ DeclaresBoth(json_schema) \/ hashFirst = "anyOf"
    /\ definitions_df = <<>>
    /\ values_df = <<>>
    /\ gdv_i = 0
    /\ definitions_dict = <<>>
    /\ values_dict = <<>>
    /\ gsp_i = 0
    /\ CoerceIdle
    /\ DerefIdle
    /\ MainIdle
    /\ RestIdle

\* one iteration of "for schema_key in json_schema["properties"].keys()" of
\* get_definitions_values
GetDefinitionsValuesStep ==
    /\ gdv_i < Len(KeysOf(json_schema.properties))
    /\ LET schema_key == KeysOf(json_schema.properties)[gdv_i + 1]
       IN  /\ definitions_df' =
                 definitions_df \o definition_rows(json_schema, schema_key)
           /\ values_df' =
                 values_df \o value_rows(json_schema, schema_key, hashFirst)
    /\ gdv_i' = gdv_i + 1
    /\ UNCHANGED <<hashFirst, json_schema, definitions_dict, values_dict, gsp_i>>
    /\ UNCHANGED <<coerceVars, derefVars, mainVars, restVars>>

\* one iteration of the loop of get_schema_properties; values_dict is a
\* defaultdict, so a key gets an entry only once something is appended
GetSchemaPropertiesStep ==
    /\ gsp_i < Len(KeysOf(json_schema.properties))
    /\ LET schema_key == KeysOf(json_schema.properties)[gsp_i + 1]
           entries == values_entries(json_schema, schema_key, hashFirst)
       IN  /\ definitions_dict' =
                 (schema_key :> definitions_entry(json_schema, schema_key))
                 @@ definitions_dict
           /\ values_dict' =
                 IF entries = <<>>
                 THEN values_dict
                 ELSE (schema_key :> entries) @@ values_dict
    /\ gsp_i' = gsp_i + 1
    /\ UNCHANGED <<hashFirst, json_schema, definitions_df, values_df, gdv_i>>
    /\ UNCHANGED <<coerceVars, derefVars, mainVars, restVars>>

NextFlatten == GetDefinitionsValuesStep \/ GetSchemaPropertiesStep

SpecFlatten == InitFlatten /\ [][NextFlatten]_vars

---------------------------------------------------------------------------
(* The dereferencer.                                                       *)

\* A reference "doc#/p1/p2" is [doc, fragment]: doc is "" for a reference
\* into the referring document, fragment the JSON pointer <<p1, p2>>.
Ref(doc, fragment) == [doc |-> doc, fragment |-> fragment]

\* the documents the resolver can fetch
RemoteStore ==
    [ defs |-> [definitions |->
                  [Sex |-> [type |-> "string",
                            anyOf |-> <<[const |-> PyStr(S_Unknown)]>>]]] ]

\* RefResolver.resolve_fragment: document[part] for each part of the pointer
\* (pointers of the model have two parts and address dicts of dicts)
resolve_fragment(document, fragment) ==
    IF fragment[1] \in DOMAIN document
       /\ fragment[2] \in DOMAIN document[fragment[1]]
    THEN Ok(document[fragment[1]][fragment[2]])
    ELSE Raise("RefResolutionError")

\* RefResolver.resolve_from_url: the referring document is in the store as
\* the very dict load_and_deref assigns into, so a pointer into it reads
\* the properties as they are at the time of the call
resolve_from_url(schema, url) ==
    IF url.doc = "" THEN resolve_fragment(schema, url.fragment)
    ELSE IF url.doc \in DOMAIN RemoteStore
         THEN resolve_fragment(RemoteStore[url.doc], url.fragment)
         ELSE Raise("RefResolutionError")

\* urllib.parse.urldefrag(url): (the url without its fragment, the fragment)
urldefrag(url) == <<[url EXCEPT !.fragment = <<>>], url.fragment>>

\* a variant that records the location without its fragment
deref_key_defragged(st, loaded, schema_key) ==
    LET definition == st.json_schema.properties[schema_key]
    IN  IF "$ref" \in DOMAIN definition
        THEN LET url == definition["$ref"]
                 body == IF url \in DOMAIN st.cache THEN Ok(st.cache[url])
                         ELSE resolve_from_url(st.json_schema, url)
             IN  IF body.ok
                 THEN [st EXCEPT !.ref_location_dict = (schema_key :> urldefrag(url)[1]) @@ @,
                                 !.json_schema.properties[schema_key] = body.val,
                                 !.cache = (url :> body.val) @@ @]
                 ELSE [st EXCEPT !.raised = body.err]
        ELSE st

\* one iteration of "for schema_key in json_schema["properties"]":
\* ref_resolver.resolve(ref) returns (url, body), url being the reference
\* joined to the resolution scope and body the cached resolve_from_url(url)
deref_key(st, loaded, schema_key) ==
    LET definition == st.json_schema.properties[schema_key]
    IN  IF "$ref" \in DOMAIN definition
        THEN LET url == definition["$ref"]
                 body == IF url \in DOMAIN st.cache THEN Ok(st.cache[url])
                         ELSE resolve_from_url(st.json_schema, url)
             IN  IF body.ok
                 THEN [st EXCEPT !.ref_location_dict = (schema_key :> url) @@ @,
                                 !.json_schema.properties[schema_key] = body.val,
                                 !.cache = (url :> body.val) @@ @]
                 ELSE [st EXCEPT !.raised = body.err]
        ELSE st

---------------------------------------------------------------------------
(* Inputs of the dereferencer.                                             *)

DerefRefs ==
    { Ref("", <<"definitions", "X">>), Ref("", <<"definitions", "Y">>),
      Ref("", <<"definitions", "Missing">>),
      Ref("", <<"properties", "a">>), Ref("", <<"properties", "b">>),
      Ref("defs", <<"definitions", "Sex">>), Ref("gone", <<"definitions", "Sex">>) }

DerefShapes ==
    { <<>>, [type |-> "string", description |-> "d"] }
    \cup { "$ref" :> r : r \in DerefRefs }
    \cup { ("$ref" :> Ref("", <<"definitions", "X">>)) @@ [description |-> "d"] }

\* bodies of #/definitions/X: plain, itself a reference, holding a reference
DerefBodiesX ==
    { [type |-> "string", maximumSize |-> 10],
      "$ref" :> Ref("", <<"definitions", "Y">>),
      [type |-> "array", items |-> ("$ref" :> Ref("", <<"definitions", "Y">>))] }

DerefDocs ==
    { [properties |-> pa @@ pb @@ px,
       definitions |-> [X |-> bx, Y |-> [type |-> "integer"]],
       required |-> <<"a">>] :
        pa \in { "a" :> p : p \in DerefShapes },
        pb \in {<<>>} \cup { "b" :> p : p \in DerefShapes },
        px \in { <<>>, "x" :> ("$ref" :> Ref("", <<"properties", "b">>)) },
        bx \in DerefBodiesX }

---------------------------------------------------------------------------
(* load_and_deref applied to drawn documents, one property per step.       *)

InitDeref ==
    /\ hashFirst = "anyOf"
    /\ loaded_doc \in DerefDocs
    /\ ld = [json_schema |-> loaded_doc, ref_location_dict |-> <<>>,
             cache |-> <<>>, raised |-> "", i |-> 0]
    /\ CoerceIdle
    /\ FlatIdle
    /\ MainIdle
    /\ RestIdle

LoadAndDerefStep ==
    /\ ld.raised = ""
    /\ ld.i < Len(KeysOf(loaded_doc.properties))
    /\ ld' = [deref_key(ld, loaded_doc, KeysOf(loaded_doc.properties)[ld.i + 1])
                EXCEPT !.i = @ + 1]
    /\ UNCHANGED <<hashFirst, loaded_doc, coerceVars, flatVars, mainVars, restVars>>

NextDeref == LoadAndDerefStep

SpecDeref == InitDeref /\ [][NextDeref]_vars

---------------------------------------------------------------------------
(* The record validator: load_and_deref as one call, the schema validator  *)
(* and the rendering of its errors.                                        *)

RECURSIVE load_and_deref_loop(_, _, _)
load_and_deref_loop(st, loaded, i) ==
    IF st.raised # "" \/ i > Len(KeysOf(loaded.properties)) THEN st
    ELSE load_and_deref_loop(deref_key(st, loaded, KeysOf(loaded.properties)[i]),
                             loaded, i + 1)

\* a variant that returns what it has when a reference cannot be resolved
load_and_deref_partial(file) ==
    IF ~file.parses THEN Raise("JSONDecodeError")
    ELSE LET st == load_and_deref_loop(
                       [json_schema |-> file.doc, ref_location_dict |-> <<>>,
                        cache |-> <<>>, raised |-> "", i |-> 0], file.doc, 1)
         IN  Ok([ref_location_dict |-> st.ref_location_dict,
                 json_schema |-> st.json_schema])

\* load_and_deref(schema_file_handle): json.load raises on a malformed
\* document; the loop raises when a reference cannot be resolved
load_and_deref(file) ==
    IF ~file.parses THEN Raise("JSONDecodeError")
    ELSE LET st == load_and_deref_loop(
                       [json_schema |-> file.doc, ref_location_dict |-> <<>>,
                        cache |-> <<>>, raised |-> "", i |-> 0], file.doc, 1)
         IN  IF st.raised # "" THEN Raise(st.raised)
             ELSE Ok([ref_location_dict |-> st.ref_location_dict,
                      json_schema |-> st.json_schema])

PyNone == [t |-> "none", b |-> FALSE, n |-> 0, s |-> <<>>]

\* {k: data_record[k] for k in data_record if data_record[k] is not None}
StripNone(data_record) ==
    [k \in {j \in DOMAIN data_record : data_record[j] # PyNone} |-> data_record[k]]

\* jsonschema's type check of a scalar instance
is_type(instance, type) ==
    CASE type = "string" -> instance.t = "str"
      [] type = "boolean" -> instance.t = "bool"
      [] type = "integer" ->
            instance.t = "int" \/ (instance.t = "float" /\ instance.s = <<"0">>)
      [] type = "number" -> instance.t \in {"int", "float"}
      [] type = "null" -> instance.t = "none"
      [] OTHER -> FALSE

\* jsonschema's equality of an instance and a const: a bool only equals a
\* bool, an int equals the float of the same value
json_equal(instance, const) ==
    \/ instance = const
    \/ /\ {instance.t, const.t} = {"int", "float"}
       /\ instance.n = const.n
       /\ (IF instance.t = "float" THEN instance.s ELSE const.s) = <<"0">>

\* re.search of an anchored literal pattern "^...$"
re_search(pattern, string) ==
    /\ Len(pattern) >= 2
    /\ pattern[1] = "^" /\ pattern[Len(pattern)] = "$"
    /\ string = SubSeq(pattern, 2, Len(pattern) - 1)

\* an entry of anyOf accepts the instance
entry_accepts(entry, instance) ==
    /\ "const" \in DOMAIN entry => json_equal(instance, entry.const)
    /\ "type" \in DOMAIN entry => is_type(instance, entry.type)

\* the keywords of a property definition the validator acts on, in the
\* order documents list them
KeywordOrder == <<"type", "pattern", "anyOf", "enum">>

\* does keyword kw of the property definition reject the instance? An enum
\* of the schemas lists objects ({"const": ...}), which no scalar equals.
keyword_fails(definition, kw, instance) ==
    CASE kw = "type" -> ~is_type(instance, definition.type)
      [] kw = "pattern" ->
            instance.t = "str" /\ ~re_search(definition.pattern.s, instance.s)
      [] kw = "anyOf" ->
            ~\E i \in 1..Len(definition.anyOf) :
                entry_accepts(definition.anyOf[i], instance)
      [] kw = "enum" -> TRUE

ValidationError(path, message) == [relative_schema_path |-> path, message |-> message]

\* the errors of one property of the instance
property_errors(definition, key, instance) ==
    LET kws == SelectSeq(KeywordOrder,
                         LAMBDA kw : kw \in DOMAIN definition
                                     /\ keyword_fails(definition, kw, instance))
    IN  [i \in 1..Len(kws) |-> ValidationError(<<"properties", key, kws[i]>>, kws[i])]

RECURSIVE properties_errors(_, _, _, _)
properties_errors(schema, record, keys, i) ==
    IF i > Len(keys) THEN <<>>
    ELSE (IF keys[i] \in DOMAIN record
          THEN property_errors(schema.properties[keys[i]], keys[i], record[keys[i]])
          ELSE <<>>)
         \o properties_errors(schema, record, keys, i + 1)

required_errors(schema, record) ==
    IF "required" \in DOMAIN schema
    THEN LET missing == SelectSeq(schema.required, LAMBDA k : k \notin DOMAIN record)
         IN  [i \in 1..Len(missing) |-> ValidationError(<<"required">>, missing[i])]
    ELSE <<>>

\* schema_validator.iter_errors(record): the errors of "properties", then
\* those of "required"
iter_errors(schema, record) ==
    properties_errors(schema, record, KeysOf(schema.properties), 1)
    \o required_errors(schema, record)

\* "Record " + str(first_record + line_number) + ": "
record_label(number) == <<"Record ">> \o NatToStr(number) \o <<": ">>

\* prepend_string: the values of the keyword arguments, concatenated
RECURSIVE prepend_of(_, _)
prepend_of(kw, i) == IF i > Len(kw) THEN <<>> ELSE kw[i] \o prepend_of(kw, i + 1)

\* "for error in schema_errors": a text is a sequence of pieces, a string
\* concatenation being their concatenation; subscripting an empty
\* relative_schema_path raises IndexError
RECURSIVE validation_errors_loop(_, _, _, _)
validation_errors_loop(errors, i, prepend_string, text) ==
    IF i > Len(errors) THEN Ok(text)
    ELSE LET error == errors[i]
         IN  IF Len(error.relative_schema_path) = 0 THEN Raise("IndexError")
             ELSE IF error.relative_schema_path[1] = "properties"
             THEN IF Len(error.relative_schema_path) < 2 THEN Raise("IndexError")
                  ELSE validation_errors_loop(errors, i + 1, prepend_string,
                           text \o prepend_string
                           \o <<error.relative_schema_path[2], ": ", error.message, "\n">>)
             ELSE validation_errors_loop(errors, i + 1, prepend_string,
                      text \o prepend_string \o <<error.message, "\n">>)

\* validation_errors(schema_errors, **kwargs)
validation_errors(errors, kw) ==
    validation_errors_loop(errors, 1, prepend_of(kw, 1), <<>>)

---------------------------------------------------------------------------
(* validation_errors applied to drawn errors.                              *)

\* most errors of one call
MaxErrors == 2

\* errors of a property, of the schema as a whole, of a conditional, and
\* the error of a schema that is false, whose relative path is empty
ErrorPool ==
    { ValidationError(<<"properties", "a", "type">>, "m1"),
      ValidationError(<<"properties", "b", "enum">>, "m2"),
      ValidationError(<<"required">>, "m1"),
      ValidationError(<<"if", "then", "required">>, "m2"),
      ValidationError(<<"additionalProperties">>, "m3"),
      ValidationError(<<>>, "m3") }

KwargsPool == { <<>>, <<record_label(3)>>, << <<"data.csv ">>, record_label(12) >> }

InitRender ==
    /\ hashFirst = "anyOf"
    /\ schema_errors \in UNION { [1..n -> ErrorPool] : n \in 0..MaxErrors }
    /\ kwargs \in KwargsPool
    /\ error_string = NoResult
    /\ WalkIdle
    /\ TableIdle
    /\ CoerceIdle
    /\ FlatIdle
    /\ DerefIdle
    /\ MainIdle

ValidationErrorsCall ==
    /\ error_string = NoResult
    /\ error_string' = validation_errors(schema_errors, kwargs)
    /\ UNCHANGED <<schema_errors, kwargs>>
    /\ UNCHANGED <<hashFirst, coerceVars, flatVars, derefVars, mainVars, walkVars,
                   tableVars>>

NextRender == ValidationErrorsCall

SpecRender == InitRender /\ [][NextRender]_vars

---------------------------------------------------------------------------
(* Inputs of the record validator.                                         *)

\* most records of a data file
MaxRecords == 2

StatusList ==
    <<[const |-> PyStr(S_true)], [const |-> PyStr(S_false)],
      [const |-> PyStr(S_Unknown)]>>

MainShapes ==
    { [type |-> "string"], [type |-> "boolean"],
      [enum |-> StatusList], [anyOf |-> StatusList],
      [anyOf |-> <<[const |-> PyBool(TRUE)], [const |-> PyInt(7)]>>],
      [anyOf |-> <<>>],
      "$ref" :> Ref("", <<"definitions", "X">>),
      "$ref" :> Ref("", <<"definitions", "Missing">>) }

SchemaFiles ==
    { [parses |-> FALSE, doc |-> [properties |-> <<>>]] }
    \cup { [parses |-> TRUE,
            doc |-> [properties |-> ("a" :> pa) @@ ("b" :> [type |-> "string"]),
                     definitions |-> [X |-> [anyOf |-> StatusList]]] @@ req] :
             pa \in MainShapes, req \in { <<>>, "required" :> <<"b">> } }

\* rows of a table with the columns a, b and x (None: an empty cell)
MainRows ==
    { [a |-> va, b |-> vb, x |-> PyNone] :
        va \in { PyNone, PyBool(TRUE), PyBool(FALSE), PyInt(7),
                 PyFloat(1, <<"5">>), PyStr(S_true), PyStr(S_Unknown) },
        vb \in { PyNone, PyStr(S_Unknown) } }
    \cup { [a |-> PyBool(TRUE), b |-> PyStr(S_Unknown), x |-> PyInt(3)] }

\* a data file: a JSON document holding one object or an array of objects,
\* or delimited text with a header line and rows
DataFiles ==
    { [format |-> "json", array |-> FALSE, records |-> <<r>>] :
        r \in MainRows \cup { StripNone(row) : row \in MainRows } }
    \cup { [format |-> "json", array |-> TRUE, records |-> rs] :
             rs \in UNION { [1..n -> { StripNone(row) : row \in MainRows }] :
                                n \in 0..MaxRecords } }
    \cup { [format |-> "csv", array |-> FALSE, records |-> rs] :
             rs \in UNION { [1..n -> MainRows] : n \in 1..MaxRecords } }

---------------------------------------------------------------------------
(* main() of validate_using_schema.py.                                     *)

Init ==
    /\ hashFirst = "anyOf"
    /\ pc = "start"
    /\ files \in [schema : SchemaFiles, data : DataFiles]
    /\ schema_validator = <<>>
    /\ data_dict_list = <<>>
    /\ first_record = 0
    /\ line_number = 0
    /\ converted_clean_record = <<>>
    /\ validation_errors_text = <<>>
    /\ stdout = <<>>
    /\ uncaught = ""
    /\ CoerceIdle
    /\ FlatIdle
    /\ DerefIdle
    /\ RestIdle

\* lines 42-43: load and dereference the schema, create the validator
LoadSchema ==
    /\ pc = "start"
    /\ LET loaded == load_and_deref(files.schema)
       IN  IF loaded.ok
           THEN /\ schema_validator' = loaded.val.json_schema
                /\ pc' = "loaded"
                /\ UNCHANGED uncaught
           ELSE /\ uncaught' = loaded.err
                /\ pc' = "failed"
                /\ UNCHANGED schema_validator
    /\ UNCHANGED <<files, data_dict_list, first_record, line_number,
                   converted_clean_record, validation_errors_text, stdout>>
    /\ UNCHANGED <<hashFirst, coerceVars, flatVars, derefVars, restVars>>

\* lines 46-69: a file that parses as JSON is appended whole, as one element;
\* otherwise the rows of the table are the elements
ReadData ==
    /\ pc = "loaded"
    /\ IF files.data.format = "json"
       THEN /\ data_dict_list' =
                  << IF files.data.array
                     THEN [is_list |-> TRUE, list |-> files.data.records, dict |-> <<>>]
                     ELSE [is_list |-> FALSE, list |-> <<>>,
                           dict |-> files.data.records[1]] >>
            /\ first_record' = 1
       ELSE /\ data_dict_list' =
                  [i \in 1..Len(files.data.records) |->
                      [is_list |-> FALSE, list |-> <<>>, dict |-> files.data.records[i]]]
            /\ first_record' = 2
    /\ pc' = "loop"
    /\ UNCHANGED <<files, schema_validator, line_number, converted_clean_record,
                   validation_errors_text, stdout, uncaught>>
    /\ UNCHANGED <<hashFirst, coerceVars, flatVars, derefVars, restVars>>

\* lines 75: the comprehension over a list subscripts the list with its own
\* elements, which raises TypeError unless the list is empty
clean_record_of(data_record) ==
    IF data_record.is_list
    THEN IF data_record.list = <<>> THEN Ok(<<>>) ELSE Raise("TypeError")
    ELSE Ok(StripNone(data_record.dict))

\* lines 71-91: one iteration of the loop over data_dict_list
ProcessRecord ==
    /\ pc = "loop"
    /\ line_number < Len(data_dict_list)
    /\ LET clean_record == clean_record_of(data_dict_list[line_number + 1])
           converted == IF clean_record.ok
                        THEN convert_from_other(clean_record.val, schema_validator,
                                                "convert_bool_to_string", hashFirst)
                        ELSE clean_record
           row_error == IF converted.ok
                        THEN validation_errors(
                                 iter_errors(schema_validator, converted.val),
                                 <<record_label(first_record + line_number)>>)
                        ELSE converted
       IN  IF row_error.ok
           THEN /\ converted_clean_record' = converted.val
                /\ validation_errors_text' = validation_errors_text \o row_error.val
                /\ line_number' = line_number + 1
                /\ UNCHANGED <<pc, uncaught>>
           ELSE /\ uncaught' = row_error.err
                /\ pc' = "failed"
                /\ converted_clean_record' =
                      IF converted.ok THEN converted.val ELSE converted_clean_record
                /\ UNCHANGED <<validation_errors_text, line_number>>
    /\ UNCHANGED <<files, schema_validator, data_dict_list, first_record, stdout>>
    /\ UNCHANGED <<hashFirst, coerceVars, flatVars, derefVars, restVars>>

\* line 93: print(validation_errors)
Report ==
    /\ pc = "loop"
    /\ line_number = Len(data_dict_list)
    /\ stdout' = validation_errors_text \o <<"\n">>
    /\ pc' = "done"
    /\ UNCHANGED <<files, schema_validator, data_dict_list, first_record,
                   line_number, converted_clean_record, validation_errors_text,
                   uncaught>>
    /\ UNCHANGED <<hashFirst, coerceVars, flatVars, derefVars, restVars>>

Next == LoadSchema \/ ReadData \/ ProcessRecord \/ Report

Spec == Init /\ [][Next]_vars

---------------------------------------------------------------------------
(* The table workflow: process_schema and process_overwrite_table.         *)

\* os.path.splitext(os.path.split(ref_doc)[1])[0] of the location without
\* its fragment: documents are named by that stem
ref_module(url) == urldefrag(url)[1].doc

\* str.upper() of a type, "NUMBER" replaced by "DOUBLE"
columnType(type) ==
    CASE type = "string" -> "STRING"
      [] type = "boolean" -> "BOOLEAN"
      [] type = "integer" -> "INTEGER"
      [] type = "number" -> "DOUBLE"
      [] OTHER -> type

RECURSIVE all_definition_rows(_, _, _)
all_definition_rows(schema, keys, i) ==
    IF i > Len(keys) THEN <<>>
    ELSE definition_rows(schema, keys[i]) \o all_definition_rows(schema, keys, i + 1)

RECURSIVE all_value_rows(_, _, _, _)
all_value_rows(schema, keys, i, first) ==
    IF i > Len(keys) THEN <<>>
    ELSE value_rows(schema, keys[i], first) \o all_value_rows(schema, keys, i + 1, first)

\* a row of defs_df merged with its module and with one row of values_df
\* (or none), "type" renamed and upper-cased, "required" dropped
table_row(def_row, modules, value_row) ==
    LET kept == [k \in DOMAIN def_row \ {"type", "required"} |-> def_row[k]]
    IN  kept
        @@ (IF "type" \in DOMAIN def_row
            THEN "columnType" :> columnType(def_row.type) ELSE <<>>)
        @@ (IF def_row.key \in DOMAIN modules
            THEN "module" :> modules[def_row.key] ELSE <<>>)
        @@ [k \in DOMAIN value_row \ {"key"} |-> value_row[k]]

\* pd.merge(..., how="left", on="key"), twice: the rows of defs_df in
\* order, each once per row of values_df with its key, or once alone
RECURSIVE merge_rows(_, _, _, _)
merge_rows(defs, modules, values, i) ==
    IF i > Len(defs) THEN <<>>
    ELSE LET matching == SelectSeq(values, LAMBDA v : v.key = defs[i].key)
         IN  (IF matching = <<>> THEN <<table_row(defs[i], modules, <<>>)>>
              ELSE [j \in 1..Len(matching) |-> table_row(defs[i], modules, matching[j])])
             \o merge_rows(defs, modules, values, i + 1)

process_schema(json_schema_file, first) ==
    LET loaded == load_and_deref(json_schema_file)
    IN  IF ~loaded.ok THEN loaded
        ELSE LET schema == loaded.val.json_schema
                 locations == loaded.val.ref_location_dict
                 ref_module_dict == [k \in DOMAIN locations |-> ref_module(locations[k])]
                 keys == KeysOf(schema.properties)
             IN  Ok(merge_rows(all_definition_rows(schema, keys, 1), ref_module_dict,
                               all_value_rows(schema, keys, 1, first), 1))

\* a row of the remote table: it was there before the run or the run stored it
RemoteRow(origin, row) == [origin |-> origin, row |-> row]

\* a variant that deletes nothing
syn_delete_nothing(table, queried) == table

\* syn.delete(results): the rows of the query result leave the table
syn_delete(table, queried) ==
    SelectSeq(table, LAMBDA r : \A i \in 1..Len(queried) : queried[i] # r)

\* syn.store(Table(id, df)): the rows of the frame are appended
syn_store(table, df) == table \o [i \in 1..Len(df) |-> RemoteRow("run", df[i])]

\* most rows of the remote table before the run
MaxOldRows == 2

OldTables ==
    UNION { [1..n -> { RemoteRow("before", [key |-> "a", value |-> PyStr(S_Unknown)]),
                       RemoteRow("before", [key |-> "z"]) }] : n \in 0..MaxOldRows }

InitTable ==
    /\ hashFirst = "anyOf"
    /\ tbl_pc = "start"
    /\ tbl_file \in SchemaFiles
    /\ syn_table_df = <<>>
    /\ results = <<>>
    /\ remote_rows \in OldTables
    /\ remote_calls = <<>>
    /\ RenderIdle
    /\ WalkIdle
    /\ CoerceIdle
    /\ FlatIdle
    /\ DerefIdle
    /\ MainIdle

TableRest == <<hashFirst, coerceVars, flatVars, derefVars, mainVars, renderVars,
               walkVars>>

\* line 127: syn_table_df = process_schema(args.json_schema_file)
ProcessSchema ==
    /\ tbl_pc = "start"
    /\ LET made == process_schema(tbl_file, hashFirst)
       IN  IF made.ok
           THEN syn_table_df' = made.val /\ tbl_pc' = "flattened"
           ELSE tbl_pc' = "failed" /\ UNCHANGED syn_table_df
    /\ UNCHANGED <<tbl_file, results, remote_rows, remote_calls, TableRest>>

\* line 131: syn.get(args.table_synapse_id); a remote call returns or raises
SynGet ==
    /\ tbl_pc = "flattened"
    /\ remote_calls' = Append(remote_calls, "get")
    /\ \E returns \in BOOLEAN : tbl_pc' = IF returns THEN "got" ELSE "failed"
    /\ UNCHANGED <<tbl_file, syn_table_df, results, remote_rows, TableRest>>

\* line 132: syn.tableQuery("select * from ...")
SynTableQuery ==
    /\ tbl_pc = "got"
    /\ remote_calls' = Append(remote_calls, "tableQuery")
    /\ \E returns \in BOOLEAN :
          IF returns THEN results' = remote_rows /\ tbl_pc' = "queried"
          ELSE tbl_pc' = "failed" /\ UNCHANGED results
    /\ UNCHANGED <<tbl_file, syn_table_df, remote_rows, TableRest>>

\* line 133: syn.delete(results)
SynDelete ==
    /\ tbl_pc = "queried"
    /\ remote_calls' = Append(remote_calls, "delete")
    /\ \E returns \in BOOLEAN :
          IF returns
          THEN remote_rows' = syn_delete(remote_rows, results) /\ tbl_pc' = "deleted"
          ELSE tbl_pc' = "failed" /\ UNCHANGED remote_rows
    /\ UNCHANGED <<tbl_file, syn_table_df, results, TableRest>>

\* line 135: syn.store(Table(dcc_val_table.id, syn_table_df))
SynStore ==
    /\ tbl_pc = "deleted"
    /\ remote_calls' = Append(remote_calls, "store")
    /\ \E returns \in BOOLEAN :
          IF returns
          THEN remote_rows' = syn_store(remote_rows, syn_table_df) /\ tbl_pc' = "stored"
          ELSE tbl_pc' = "failed" /\ UNCHANGED remote_rows
    /\ UNCHANGED <<tbl_file, syn_table_df, results, TableRest>>

NextTable == ProcessSchema \/ SynGet \/ SynTableQuery \/ SynDelete \/ SynStore

SpecTable == InitTable /\ [][NextTable]_vars

---------------------------------------------------------------------------
(* The serializer. A text is the sequence of its tokens; a dictionary is   *)
(* the sequence of its (key, value) pairs, in key order.                   *)

WDict(items) == [kind |-> "dict", items |-> items, elems |-> <<>>, val |-> <<>>]
WList(elems) == [kind |-> "list", items |-> <<>>, elems |-> elems, val |-> <<>>]
WScalar(v) == [kind |-> "scalar", items |-> <<>>, elems |-> <<>>, val |-> v]

\* "{", "}", "[", "]", "," and the end of a line
Tok(t) == [tok |-> t, name |-> "", val |-> <<>>, quoted |-> FALSE]
\* "key" :
KeyTok(k) == [tok |-> "key", name |-> k, val |-> <<>>, quoted |-> FALSE]
\* a formatted value, inside quotes or bare
ValTok(v, q) == [tok |-> "value", name |-> "", val |-> v, quoted |-> q]

set_comma_val(element_number, object_length) ==
    IF element_number + 1 < object_length THEN <<Tok(",")>> ELSE <<>>

RECURSIVE walk_schema(_, _, _)
RECURSIVE walk_items(_, _, _)
RECURSIVE walk_list(_, _, _, _, _)

\* "for element_number, element_val in enumerate(obj_val)"
walk_list(obj_key, obj_val, element_number, obj_comma, output) ==
    IF element_number >= Len(obj_val) THEN output
    ELSE LET element_val == obj_val[element_number + 1]
             element_comma == set_comma_val(element_number, Len(obj_val))
             opened == IF element_number = 0
                       THEN output \o <<KeyTok(obj_key), Tok("["), Tok("\n")>>
                       ELSE output
             written == IF element_val.kind = "dict"
                        THEN walk_schema(element_val, opened, FALSE)
                             \o <<Tok("}")>> \o element_comma \o <<Tok("\n")>>
                        ELSE opened \o <<ValTok(element_val, TRUE)>>
                             \o element_comma \o <<Tok("\n")>>
             closed == IF element_number + 1 = Len(obj_val)
                       THEN written \o <<Tok("]")>> \o obj_comma \o <<Tok("\n")>>
                       ELSE written
         IN  walk_list(obj_key, obj_val, element_number + 1, obj_comma, closed)

\* "for key_number, (obj_key, obj_val) in enumerate(schema_obj.items())"
walk_items(obj, key_number, output) ==
    IF key_number >= Len(obj.items) THEN output
    ELSE LET obj_key == obj.items[key_number + 1][1]
             obj_val == obj.items[key_number + 1][2]
             obj_comma == set_comma_val(key_number, Len(obj.items))
             written ==
                 CASE obj_val.kind = "dict" ->
                        walk_schema(obj_val, output \o <<KeyTok(obj_key)>>, FALSE)
                        \o <<Tok("}")>> \o obj_comma \o <<Tok("\n")>>
                   [] obj_val.kind = "list" ->
                        walk_list(obj_key, obj_val.elems, 0, obj_comma, output)
                   [] OTHER ->
                        output
                        \o <<KeyTok(obj_key),
                             ValTok(obj_val, obj_val.val.t \in {"str", "bool"})>>
                        \o obj_comma \o <<Tok("\n")>>
         IN  walk_items(obj, key_number + 1, written)

walk_schema(obj, output, first_call) ==
    LET walked == walk_items(obj, 0, output \o <<Tok("{"), Tok("\n")>>)
    IN  IF first_call THEN walked \o <<Tok("}"), Tok("\n")>> ELSE walked

---------------------------------------------------------------------------
(* walk_schema applied to drawn dictionaries.                              *)

\* longest list of a dictionary
MaxListLen == 2

WalkScalars == { WScalar(PyStr(S_true)), WScalar(PyInt(7)) }

\* entries of a list of dictionaries: empty, one key, two keys
WalkEntries ==
    { WDict(<<>>),
      WDict(<< <<"const", WScalar(PyStr(S_Unknown))>> >>),
      WDict(<< <<"const", WScalar(PyBool(TRUE))>>,
               <<"description", WScalar(PyStr(S_Unknown))>> >>) }

WalkLists ==
    { WList(l) : l \in UNION { [1..n -> WalkEntries] : n \in 0..MaxListLen } }
    \cup { WList(l) : l \in UNION { [1..n -> WalkScalars] : n \in 1..MaxListLen } }

\* a dictionary holding a list, and one holding a dictionary
WalkNested ==
    { WDict(<< <<"type", WScalar(PyStr(S_Unknown))>>,
               <<"anyOf", WList(<< WDict(<< <<"const", WScalar(PyInt(7))>> >>) >>)>> >>),
      WDict(<< <<"items", WDict(<< <<"required", WList(<<>>)>> >>)>> >>) }

WalkValues == WalkScalars \cup WalkEntries \cup WalkLists \cup WalkNested

WalkObjs ==
    { WDict(<<>>) }
    \cup { WDict(<< <<"a", v>> >>) : v \in WalkValues }
    \cup { WDict(<< <<"b", v>>, <<"a", w>> >>) : v \in WalkValues, w \in WalkValues }

InitWalk ==
    /\ hashFirst = "anyOf"
    /\ schema_obj \in WalkObjs
    /\ schema_output = NoResult
    /\ RenderIdle
    /\ TableIdle
    /\ CoerceIdle
    /\ FlatIdle
    /\ DerefIdle
    /\ MainIdle

\* walk_schema(schema_obj, "", True)
WalkSchemaCall ==
    /\ schema_output = NoResult
    /\ schema_output' = Ok(walk_schema(schema_obj, <<>>, TRUE))
    /\ UNCHANGED schema_obj
    /\ UNCHANGED <<hashFirst, coerceVars, flatVars, derefVars, mainVars, renderVars,
                   tableVars>>

NextWalk == WalkSchemaCall

SpecWalk == InitWalk /\ [][NextWalk]_vars

---------------------------------------------------------------------------
(* Properties of the coercions (SpecCoerce).                               *)

Props == val_schema.properties

\* the record keys that are schema properties declaring anyOf or enum
ListKeys == { k \in DOMAIN data_row \cap DOMAIN Props : HasValuesList(Props[k]) }

\* the value list the coercions read for key k
ListOf(k) == Props[k][vkey_of(Props[k], hashFirst)]

HasStrConst(l) == \E i \in 1..Len(l) : "const" \in DOMAIN l[i] /\ IsStr(l[i].const)
HasBoolConst(l) == \E i \in 1..Len(l) : "const" \in DOMAIN l[i] /\ IsBool(l[i].const)
HasTypeIn(l, types) == \E i \in 1..Len(l) : "type" \in DOMAIN l[i] /\ l[i].type \in types

\* the call returned a record that maps k to v
Maps(result, k, v) == result.ok /\ k \in DOMAIN result.val /\ result.val[k] = v

\* C2: for every record key that is not a property of the schema, narrowing
\* and widening both finish without raising and return the key mapped to its
\* original value.
C2_UnknownKeyPassesThrough ==
    \A k \in DOMAIN data_row \ DOMAIN Props :
        /\ cpc = "narrowed" => Maps(narrowed, k, data_row[k])
        /\ cpc = "widened" => Maps(widened, k, data_row[k])

\* C3: narrowing a non-string value of a property that declares anyOf or
\* enum, none of whose value-list entries has a string const (the empty list
\* included), returns a record that maps the key to the original value.
C3_NoStringConstPassesThrough ==
    (cpc = "narrowed" /\ narrowed.ok) =>
        \A k \in ListKeys :
            (~IsStr(data_row[k]) /\ ~HasStrConst(ListOf(k)))
                => (k \in DOMAIN narrowed.val /\ narrowed.val[k] = data_row[k])

AllDigits(s) == Len(s) > 0 /\ \A i \in 1..Len(s) : s[i] \in DecimalDigits

\* the syntactic sniffing C4 describes
Sniffed(func, v) ==
    IF func = "convert_string_to_numeric"
    THEN IF AllDigits(v.s) THEN PyInt(DigitsToNat(v.s))
         ELSE IF AllDigits(replace_first_dot(v.s)) THEN py_float(v.s).val
         ELSE v
    ELSE IF upper(v.s) = upper(S_true) THEN PyBool(TRUE)
         ELSE IF upper(v.s) = upper(S_false) THEN PyBool(FALSE)
         ELSE v

\* C4: widening a string value of a property that declares anyOf or enum
\* returns the sniffed conversion when some value-list entry declares a type
\* of the target type set (a string that is neither numeric nor boolean
\* unchanged), and the string unchanged when no entry declares such a type.
\* Stated of records all of whose keys are schema properties.
C4_WidenSniffs ==
    (cpc = "widened" /\ DOMAIN data_row \subseteq DOMAIN Props) =>
        \A k \in ListKeys :
            IsStr(data_row[k]) =>
                Maps(widened, k,
                     IF HasTypeIn(ListOf(k), widen_call.type_list)
                     THEN Sniffed(widen_call.func, data_row[k])
                     ELSE data_row[k])

\* the converters narrowing is meant for
StringConverters == {"convert_bool_to_string", "convert_numeric_to_string"}

KeysKept(result) == result.ok /\ DOMAIN result.val = DOMAIN data_row

\* C19: for a record all of whose keys are schema properties, narrowing and
\* widening return a record that has exactly the keys of the input record,
\* whatever the value lists, an empty one included.
C19_KeySetPreserved ==
    DOMAIN data_row \subseteq DOMAIN Props =>
        /\ (cpc = "narrowed" /\ func_to_run \in StringConverters) => KeysKept(narrowed)
        /\ cpc = "widened" => KeysKept(widened)

\* the same for records none of whose value lists is empty and none of
\* whose strings holds a numeric character that is no decimal digit
C19_KeySetPreservedNonEmpty ==
    (/\ \A k \in ListKeys : ListOf(k) # <<>>
     /\ \A k \in DOMAIN data_row : IsStr(data_row[k]) =>
           \A i \in 1..Len(data_row[k].s) : data_row[k].s[i] # HalfChar)
        => C19_KeySetPreserved

BoolRoundTrip ==
    /\ cpc = "roundtrip"
    /\ func_to_run = "convert_bool_to_string"
    /\ widen_call = [type_list |-> {"boolean"}, func |-> "convert_string_to_bool"]
    /\ "a" \in DOMAIN data_row
    /\ IsBool(data_row.a)
    /\ HasValuesList(Props.a)
    /\ HasStrConst(ListOf("a"))
    /\ HasBoolConst(ListOf("a"))

RoundTripHolds ==
    /\ narrowed.val.a = PyStr(IF data_row.a.b THEN S_true ELSE S_false)
    /\ Maps(widened, "a", data_row.a)

\* C5 as stated: for a property whose value list has an entry with a string
\* const and an entry with a boolean const, narrowing True (False) with the
\* boolean-to-string converter yields "true" ("false"), and widening that
\* with target types {"boolean"} and the string-to-boolean converter yields
\* True (False) again.
C5_RoundTripAsStated == BoolRoundTrip => RoundTripHolds

\* C5 amended: the round trip holds when, in addition, some entry of the
\* value list declares the type "boolean".
C5_RoundTrip ==
    (BoolRoundTrip /\ HasTypeIn(ListOf("a"), {"boolean"})) => RoundTripHolds

C5_Witness ==
    /\ BoolRoundTrip
    /\ HasTypeIn(ListOf("a"), {"boolean"})
    /\ data_row.a = PyBool(TRUE)
    /\ narrowed.val.a = PyStr(S_true)
    /\ widened.val.a = PyBool(TRUE)

\* C6: narrowing leaves a value that is already a string as it is, widening
\* leaves a value that is not a string as it is, whatever the converter; a
\* record of strings is returned whole by narrowing and a record of typed
\* values whole by widening; narrowing twice gives what narrowing once gave.
C6_NoOps ==
    /\ (cpc = "narrowed" /\ narrowed.ok) =>
          \A k \in DOMAIN data_row :
              IsStr(data_row[k]) => Maps(narrowed, k, data_row[k])
    /\ (cpc = "widened" /\ widened.ok) =>
          \A k \in DOMAIN data_row :
              ~IsStr(data_row[k]) => Maps(widened, k, data_row[k])
    /\ (/\ cpc = "narrowed"
        /\ DOMAIN data_row \subseteq DOMAIN Props
        /\ \A k \in DOMAIN data_row : IsStr(data_row[k]))
          => (narrowed.ok /\ narrowed.val = data_row)
    /\ (/\ cpc = "widened"
        /\ DOMAIN data_row \subseteq DOMAIN Props
        /\ \A k \in DOMAIN data_row : ~IsStr(data_row[k]))
          => (widened.ok /\ widened.val = data_row)
    /\ cpc = "narrowed2" => narrowed2 = narrowed

C6_Witness ==
    /\ cpc = "narrowed2"
    /\ narrowed2.ok
    /\ DOMAIN data_row = {"a", "b"}
    /\ IsStr(data_row.a)
    /\ HasValuesList(Props.a)
    /\ HasStrConst(ListOf("a"))
    /\ narrowed2.val.a = data_row.a
    /\ narrowed2.val.b # data_row.b

---------------------------------------------------------------------------
(* Properties of the flattener (SpecFlatten).                              *)

SchemaProps == json_schema.properties

\* get_definitions_values has iterated every property and returns
GdvDone == gdv_i = Len(KeysOf(SchemaProps))

\* the rows of a table that carry key k, in table order
RowsFor(df, k) == SelectSeq(df, LAMBDA row : row.key = k)

\* C7: the Definitions table holds exactly one row for each key of the
\* schema's properties (a property defined as {} included) and no other row;
\* the row's required is true exactly when the key is in the schema's
\* required list.
C7_OneDefinitionRowPerProperty ==
    GdvDone =>
        /\ \A i \in 1..Len(definitions_df) : definitions_df[i].key \in DOMAIN SchemaProps
        /\ \A k \in DOMAIN SchemaProps :
              /\ Len(RowsFor(definitions_df, k)) = 1
              /\ RowsFor(definitions_df, k)[1].required
                    = ( /\ "required" \in DOMAIN json_schema
                        /\ \E i \in 1..Len(json_schema.required) :
                              json_schema.required[i] = k )

\* the value list the flattener reads for property k
FlatListOf(k) == SchemaProps[k][vkey_of(SchemaProps[k], hashFirst)]

\* row carries field f exactly when entry carries field g, with its value
Carries(row, f, entry, g) ==
    /\ f \in DOMAIN row <=> g \in DOMAIN entry
    /\ f \in DOMAIN row => row[f] = entry[g]

\* C8: the Values table holds, for each property, one row with the pattern
\* string as its value when the property declares pattern (with or without
\* anyOf/enum); else one row per entry of its value list, in list order,
\* each with the const, description and source of its own entry and of no
\* other; else no row.
C8_ValueRowCount ==
    GdvDone =>
        \A k \in DOMAIN SchemaProps :
            LET rows == RowsFor(values_df, k)
            IN  IF "pattern" \in DOMAIN SchemaProps[k]
                THEN Len(rows) = 1 /\ rows[1].value = SchemaProps[k].pattern
                ELSE IF HasValuesList(SchemaProps[k])
                THEN /\ Len(rows) = Len(FlatListOf(k))
                     /\ \A i \in 1..Len(rows) :
                           /\ Carries(rows[i], "value", FlatListOf(k)[i], "const")
                           /\ Carries(rows[i], "valueDescription", FlatListOf(k)[i],
                                      "description")
                           /\ Carries(rows[i], "source", FlatListOf(k)[i], "source")
                ELSE Len(rows) = 0

C8_Witness ==
    /\ GdvDone
    /\ DOMAIN SchemaProps = {"a", "b"}
    /\ {"pattern", "enum"} \subseteq DOMAIN SchemaProps.a
    /\ Len(SchemaProps.a.enum) = 1
    /\ "enum" \in DOMAIN SchemaProps.b
    /\ Len(RowsFor(values_df, "a")) = 1
    /\ Len(RowsFor(values_df, "b")) = 2

\* C9: every row of the Values table has the key of some row of the
\* Definitions table (in every state of the call, the returned tables
\* included).
C9_ValueKeysAreDefined ==
    \A i \in 1..Len(values_df) :
        \E j \in 1..Len(definitions_df) : definitions_df[j].key = values_df[i].key

C9_Witness ==
    /\ GdvDone
    /\ Len(RowsFor(values_df, "a")) = 2
    /\ Len(RowsFor(values_df, "b")) = 1
    /\ Len(definitions_df) = 2

\* both flatteners have returned
BothDone == GdvDone /\ gsp_i = Len(KeysOf(SchemaProps))

DfKeys(df) == { df[i].key : i \in 1..Len(df) }

\* the values of a key, in order, in the table form and in the dictionary form
DfValues(k) ==
    LET rows == SelectSeq(values_df, LAMBDA r : r.key = k)
    IN  [i \in 1..Len(rows) |-> FieldOrNone(rows[i], "value")]

DictValues(k) ==
    IF k \in DOMAIN values_dict
    THEN [i \in 1..Len(values_dict[k]) |-> values_dict[k][i].value]
    ELSE <<>>

\* C20: the two flatteners describe the same property keys, give each key
\* the same required, type, description and maximumSize, and the same
\* ordered list of values.
C20_FlattenersAgree ==
    BothDone =>
        /\ DfKeys(definitions_df) = DOMAIN definitions_dict
        /\ \A i \in 1..Len(definitions_df) :
              LET row == definitions_df[i]
                  entry == definitions_dict[row.key]
              IN  /\ row.key \in DOMAIN definitions_dict
                  /\ FieldOrNone(row, "required") = entry.required
                  /\ FieldOrNone(row, "type") = entry.type
                  /\ FieldOrNone(row, "description") = entry.description
                  /\ FieldOrNone(row, "maximumSize") = entry.maximumSize
        /\ \A k \in DOMAIN SchemaProps : DfValues(k) = DictValues(k)

\* the same for schemas without a property defined as {}
C20_FlattenersAgreeNonEmpty ==
    (\A k \in DOMAIN SchemaProps : DOMAIN SchemaProps[k] # {}) => C20_FlattenersAgree

---------------------------------------------------------------------------
(* Properties of the dereferencer (SpecDeref).                             *)

\* load_and_deref has iterated every property and returns
LdReturned == ld.raised = "" /\ ld.i = Len(KeysOf(loaded_doc.properties))

\* C10: in the returned schema the property keys are those of the loaded
\* document; every property that held $ref is exactly the body its target
\* has in the loaded document (a $ref inside that body unresolved); every
\* other property is its loaded definition; nothing outside properties is
\* changed.
C10_OneLevelDeref ==
    LdReturned =>
        /\ DOMAIN ld.json_schema.properties = DOMAIN loaded_doc.properties
        /\ \A k \in DOMAIN loaded_doc.properties :
              IF "$ref" \in DOMAIN loaded_doc.properties[k]
              THEN ld.json_schema.properties[k]
                      = resolve_from_url(loaded_doc,
                                         loaded_doc.properties[k]["$ref"]).val
              ELSE ld.json_schema.properties[k] = loaded_doc.properties[k]
        /\ DOMAIN ld.json_schema = DOMAIN loaded_doc
        /\ \A top \in DOMAIN loaded_doc \ {"properties"} :
              ld.json_schema[top] = loaded_doc[top]

\* the properties of the loaded document that hold a reference
RefKeys == { k \in DOMAIN loaded_doc.properties : "$ref" \in DOMAIN loaded_doc.properties[k] }

\* C11 as stated: the returned reference map has an entry for exactly the
\* properties that held $ref, and each value is the location of the
\* referenced document with the fragment removed.
C11_RefMapFragmentStripped ==
    LdReturned =>
        /\ DOMAIN ld.ref_location_dict = RefKeys
        /\ \A k \in RefKeys :
              ld.ref_location_dict[k] = urldefrag(loaded_doc.properties[k]["$ref"])[1]

\* C11, amended: the returned reference map has an entry for exactly the
\* properties that held $ref, and each value is the full location the
\* reference resolved to, fragment included.
C11_RefMapKeepsFragment ==
    LdReturned =>
        /\ DOMAIN ld.ref_location_dict = RefKeys
        /\ \A k \in RefKeys :
              ld.ref_location_dict[k] = loaded_doc.properties[k]["$ref"]

\* a call returned with a reference to another document recorded next to a
\* property that held no reference
C11_Witness ==
    /\ LdReturned
    /\ \E k \in RefKeys :
          /\ ld.ref_location_dict[k] = Ref("defs", <<"definitions", "Sex">>)
          /\ urldefrag(ld.ref_location_dict[k])[2] # <<>>
    /\ DOMAIN loaded_doc.properties \ RefKeys # {}

---------------------------------------------------------------------------
(* Properties of the record validator (Spec).                              *)

\* a record has been handed to the schema validator: it is the element
\* line_number of data_dict_list
Handed == line_number >= 1

HandedRecord ==
    IF data_dict_list[line_number].is_list THEN <<>>
    ELSE StripNone(data_dict_list[line_number].dict)

\* the keys narrowing is about: schema properties with a value list that
\* has a string const, whose record value is not a string
NarrowKeys ==
    { k \in DOMAIN HandedRecord \cap DOMAIN schema_validator.properties :
        /\ HasValuesList(schema_validator.properties[k])
        /\ ~IsStr(HandedRecord[k])
        /\ HasStrConst(schema_validator.properties[k][
               vkey_of(schema_validator.properties[k], hashFirst)]) }

BoolText(v) == PyStr(IF v.b THEN S_true ELSE S_false)

\* C1 as stated: the value handed to the schema validator is the string
\* form of the record value, "true"/"false" for a boolean and the decimal
\* text for an integer or a float.
C1_NarrowedAsStated ==
    Handed =>
        \A k \in NarrowKeys :
            /\ k \in DOMAIN converted_clean_record
            /\ converted_clean_record[k] =
                  (IF IsBool(HandedRecord[k]) THEN BoolText(HandedRecord[k])
                   ELSE PyStr(py_str(HandedRecord[k])))

\* C1, amended: the validator narrows booleans only. A boolean is handed to
\* the schema validator as "true"/"false"; an integer or a float is handed
\* over as it is.
C1_NarrowsBooleans ==
    Handed =>
        \A k \in NarrowKeys :
            /\ k \in DOMAIN converted_clean_record
            /\ converted_clean_record[k] =
                  (IF IsBool(HandedRecord[k]) THEN BoolText(HandedRecord[k])
                   ELSE HandedRecord[k])

\* a boolean true was narrowed to "true" and the record passed validation
C1_Witness ==
    /\ Handed
    /\ \E k \in NarrowKeys :
          /\ HandedRecord[k] = PyBool(TRUE)
          /\ converted_clean_record[k] = PyStr(S_true)
    /\ validation_errors_text = <<>>

\* the records of the data file, and the number the claim gives the first
FileRecords == files.data.records

StatedFirst == IF files.data.format = "json" THEN 1 ELSE 2

\* once the data file is read, each of its records is an element of
\* data_dict_list of its own
OwnRecords ==
    pc \in {"loop", "done"} =>
        /\ Len(data_dict_list) = Len(FileRecords)
        /\ \A i \in 1..Len(FileRecords) :
              /\ ~data_dict_list[i].is_list
              /\ data_dict_list[i].dict = FileRecords[i]

\* the error lines an iteration adds are labelled with the number of the
\* record it processed
LabelStep ==
    line_number' = line_number + 1 =>
        \A p \in (Len(validation_errors_text) + 1)..Len(validation_errors_text') :
            validation_errors_text'[p] = "Record " =>
                <<validation_errors_text'[p + 1]>> = NatToStr(StatedFirst + line_number)

\* C12: the records of a JSON array are validated each on its own and the
\* error lines of the i-th are labelled "Record i: "; the error lines of
\* the i-th row of a table are labelled "Record i+1: ".
C12_RecordNumbering == []OwnRecords /\ [][LabelStep]_vars

\* the numbering alone, which the code keeps for the elements it has
C12_LabelsOnly == [][LabelStep]_vars

\* the records of tables and of single JSON objects are elements of their own
C12_OwnRecordsNoArray == ~files.data.array => OwnRecords

\* the error lines of the i-th record of the data file: one line per error
\* the schema validator finds in the null-stripped, narrowed record
RecordLines(i) ==
    validation_errors(
        iter_errors(schema_validator,
                    convert_from_other(StripNone(FileRecords[i]), schema_validator,
                                       "convert_bool_to_string", hashFirst).val),
        <<record_label(first_record + i - 1)>>).val

RECURSIVE ReportOf(_)
ReportOf(n) == IF n = 0 THEN <<>> ELSE ReportOf(n - 1) \o RecordLines(n)

\* the data file has been read
DataRead == pc \in {"loop", "done"} \/ (pc = "failed" /\ schema_validator # <<>>)

\* C13: every record of the data file is null-stripped, narrowed and
\* validated whatever came before it (the run does not stop once the data
\* is read); the report is printed only after the last record; it is the
\* concatenation, in record order, of the error lines of each record, and
\* so empty exactly when no record has an error.
C13_Aggregation ==
    /\ DataRead => pc # "failed"
    /\ stdout # <<>> => pc = "done" /\ line_number = Len(FileRecords)
    /\ pc = "done" =>
          /\ validation_errors_text = ReportOf(Len(FileRecords))
          /\ (validation_errors_text = <<>>) =
                (\A i \in 1..Len(FileRecords) : RecordLines(i) = <<>>)

\* the records the run can take to its end: no JSON array, every key of
\* every record a property of the schema
Processable ==
    /\ ~files.data.array
    /\ \A i \in 1..Len(FileRecords) :
          DOMAIN StripNone(FileRecords[i]) \subseteq DOMAIN files.schema.doc.properties

C13_AggregationOfProcessable == Processable => C13_Aggregation

\* the target of a reference into the schema document exists
TargetExists(doc, ref) ==
    /\ ref.doc = ""
    /\ ref.fragment[1] \in DOMAIN doc
    /\ ref.fragment[2] \in DOMAIN doc[ref.fragment[1]]

\* the schema file does not parse, or a property refers to a missing target
SchemaBroken ==
    \/ ~files.schema.parses
    \/ \E k \in DOMAIN files.schema.doc.properties :
          /\ "$ref" \in DOMAIN files.schema.doc.properties[k]
          /\ ~TargetExists(files.schema.doc, files.schema.doc.properties[k]["$ref"])

ScenarioRun(keyword) ==
    /\ files.schema.parses
    /\ files.schema.doc.properties["a"] = (keyword :> StatusList)
    /\ "required" \notin DOMAIN files.schema.doc
    /\ files.data.format = "json" /\ ~files.data.array
    /\ files.data.records = <<[a |-> PyBool(TRUE)]>>
    /\ pc = "done"

ScenarioPasses ==
    /\ converted_clean_record = [a |-> PyStr(S_true)]
    /\ validation_errors_text = <<>>

\* C16: with enum [{"const": "true"}, {"const": "false"}, {"const":
\* "Unknown"}] the record {a: true} is narrowed to {a: "true"} and validates
\* without an error, the report being empty.
C16_EnumScenario == ScenarioRun("enum") => ScenarioPasses

\* the same scenario with the list under anyOf
C16_AnyOfScenario == ScenarioRun("anyOf") => ScenarioPasses

---------------------------------------------------------------------------
(* Properties of the error rendering (SpecRender).                         *)

Rendered == error_string # NoResult

\* the label: the keyword values one after the other
LabelOf == IF kwargs = <<>> THEN <<>>
           ELSE IF Len(kwargs) = 1 THEN kwargs[1] ELSE kwargs[1] \o kwargs[2]

\* the line the claim gives an error
StatedLine(error) ==
    IF error.relative_schema_path # <<>> /\ error.relative_schema_path[1] = "properties"
    THEN LabelOf \o <<error.relative_schema_path[2], ": ", error.message, "\n">>
    ELSE LabelOf \o <<error.message, "\n">>

RECURSIVE StatedText(_)
StatedText(n) == IF n = 0 THEN <<>> ELSE StatedText(n - 1) \o StatedLine(schema_errors[n])

\* C14: the call returns one line per error, in order: label, property
\* name, ": " and message for an error whose relative schema path starts
\* with "properties"; label and message for every other error, an error
\* with an empty relative schema path included.
C14_ErrorLines ==
    Rendered =>
        /\ error_string.ok
        /\ error_string.val = StatedText(Len(schema_errors))

\* the same for errors that have a relative schema path
C14_ErrorLinesWithPath ==
    (\A i \in 1..Len(schema_errors) : schema_errors[i].relative_schema_path # <<>>)
        => C14_ErrorLines

---------------------------------------------------------------------------
(* Properties of the serializer (SpecWalk).                                *)

Walked == schema_output # NoResult

\* the tokens of the JSON text of a structure: the members of an object in
\* key order, the elements of an array in list order, one comma between
\* two neighbours and none after the last
RECURSIVE Json(_)
RECURSIVE JsonMembers(_, _)
RECURSIVE JsonElements(_, _)

JsonMembers(items, i) ==
    IF i > Len(items) THEN <<>>
    ELSE <<KeyTok(items[i][1])>> \o Json(items[i][2])
         \o (IF i < Len(items) THEN <<Tok(",")>> ELSE <<>>)
         \o JsonMembers(items, i + 1)

JsonElements(elems, i) ==
    IF i > Len(elems) THEN <<>>
    ELSE Json(elems[i])
         \o (IF i < Len(elems) THEN <<Tok(",")>> ELSE <<>>)
         \o JsonElements(elems, i + 1)

Json(node) ==
    CASE node.kind = "dict" -> <<Tok("{")>> \o JsonMembers(node.items, 1) \o <<Tok("}")>>
      [] node.kind = "list" -> <<Tok("[")>> \o JsonElements(node.elems, 1) \o <<Tok("]")>>
      [] OTHER -> <<ValTok(node, FALSE)>>

\* a text without its line ends and without the quoting of its values
Structure(text) ==
    LET kept == SelectSeq(text, LAMBDA t : t.tok # "\n")
    IN  [i \in 1..Len(kept) |-> [kept[i] EXCEPT !.quoted = FALSE]]

\* C17: the text walk_schema returns for a dictionary is structurally
\* legal JSON: braces and brackets closed in matching order, every key of
\* every mapping present in key order, one comma between two members or
\* elements and none after the last; for lists of every length, the empty
\* list included.
C17_LegalJson ==
    Walked => Structure(schema_output.val) = Json(schema_obj)

\* a structure none of whose lists is empty
RECURSIVE NoEmptyList(_)
NoEmptyList(node) ==
    CASE node.kind = "dict" ->
            \A i \in 1..Len(node.items) : NoEmptyList(node.items[i][2])
      [] node.kind = "list" ->
            node.elems # <<>> /\ \A i \in 1..Len(node.elems) : NoEmptyList(node.elems[i])
      [] OTHER -> TRUE

C17_LegalJsonWithoutEmptyLists == NoEmptyList(schema_obj) => C17_LegalJson

---------------------------------------------------------------------------
(* Properties of the table workflow (SpecTable).                           *)

\* the schema file of the workflow does not parse, or refers to a missing
\* target
TableSchemaBroken ==
    \/ ~tbl_file.parses
    \/ \E k \in DOMAIN tbl_file.doc.properties :
          /\ "$ref" \in DOMAIN tbl_file.doc.properties[k]
          /\ ~TargetExists(tbl_file.doc, tbl_file.doc.properties[k]["$ref"])

CallOrder == <<"get", "tableQuery", "delete", "store">>

\* the calls issued are the first calls of the order, each once
CallsInOrder ==
    /\ Len(remote_calls) <= Len(CallOrder)
    /\ \A i \in 1..Len(remote_calls) : remote_calls[i] = CallOrder[i]

OrderingInv ==
    /\ CallsInOrder
    /\ remote_calls # <<>> => ~TableSchemaBroken /\ tbl_pc # "start"
    /\ TableSchemaBroken =>
          /\ remote_calls = <<>>
          /\ \A i \in 1..Len(remote_rows) : remote_rows[i].origin = "before"
    /\ tbl_pc = "stored" =>
          /\ remote_calls = CallOrder
          /\ Len(remote_rows) = Len(syn_table_df)
          /\ \A i \in 1..Len(remote_rows) :
                remote_rows[i] = RemoteRow("run", syn_table_df[i])

\* the table changes only with a delete or a store, the rows made of the
\* schema never change once made, and a failed run issues no further call
OrderingStep ==
    /\ remote_rows' # remote_rows =>
          /\ Len(remote_calls') = Len(remote_calls) + 1
          /\ remote_calls'[Len(remote_calls')] \in {"delete", "store"}
    /\ tbl_pc # "start" => syn_table_df' = syn_table_df
    /\ tbl_pc = "failed" => remote_calls' = remote_calls

\* C18: the schema is loaded, dereferenced and flattened before any remote
\* call; then get, query, delete and store are issued in this order, each
\* once; a schema that fails to load leaves the table as it was; after a
\* run in which every call returns, the table holds the rows made of the
\* schema and none of the rows it held before.
C18_OverwriteOrdering == []OrderingInv /\ [][OrderingStep]_vars

\* a run replaced a table that held rows by the rows of a schema
C18_Witness ==
    /\ tbl_pc = "stored"
    /\ results # <<>>
    /\ syn_table_df # <<>>
    /\ \A i \in 1..Len(remote_rows) : remote_rows[i].origin = "run"

=============================================================================
